---- MODULE Spec2Model ----
(***************************************************************************)
(* Model of src/src/app.tsx: the React component App that keeps the graph  *)
(* (nodes with adjacency lists) in graphData, rebuilds a d3 force          *)
(* simulation in an effect on every graphData change, and wires d3-drag    *)
(* handlers that pin nodes.  d3-force / d3-drag / d3-timer are modelled by *)
(* the behaviour the component relies on: initializeNodes, alpha cooling,  *)
(* fx/fy clamping, event.active, all timers firing in one frame.           *)
(***************************************************************************)
EXTENDS Integers, Sequences, FiniteSets, TLC

(* ---------------- bounds of the model ---------------- *)
\* nodes in the graph: the five initial ones plus added ones
MaxNodes == 6
\* effect runs (simulations built) in the interactive specification
MaxSims == 2
\* edits in the graph-editing specification
MaxEdits == 2
\* simultaneous drag gestures (pointers)
MaxDrags == 2
\* share of (alphaTarget - alpha) applied per tick, in 1/AlphaOne units;
\* d3's default is about 23 (300 ticks to cool), the model cools in 2 ticks
alphaDecay == 990

(* ---------------- program constants ---------------- *)
width == 800
height == 600
\* alpha is kept in fixed point: AlphaOne stands for 1.0
AlphaOne == 1000
alphaMin == 1
HotTarget == 300
\* the value of a coordinate that is undefined or null
Null == -100000

\* ids are ranks in the string order that getLinksFromNodes compares by;
\* one id always stays unused, so "absent id" inputs exist
Ids == 0..MaxNodes
\* nanoid() results of the five initial nodes (two of the possible orders)
InitialIds == {<<1, 2, 3, 4, 5>>, <<4, 2, 5, 1, 3>>}
\* pointer positions delivered by drag events
DragPoints == {<<400, 300>>, <<120, 80>>}

VARIABLES nodes, sims, drags, event
vars == <<nodes, sims, drags, event>>

(* ---------------- helpers over the node array ---------------- *)
Range(s) == {s[k] : k \in 1..Len(s)}
includes(s, v) == v \in Range(s)
filterOut(s, v) == SelectSeq(s, LAMBDA id : id # v)
NodeIds(ns) == {ns[k].id : k \in 1..Len(ns)}
\* Array.prototype.find by id: index of the first match, 0 for undefined
find(ns, id) ==
  IF \E k \in 1..Len(ns) : ns[k].id = id
  THEN CHOOSE k \in 1..Len(ns) : ns[k].id = id /\ \A j \in 1..(k - 1) : ns[j].id # id
  ELSE 0
setConnections(ns, k, c) == [ns EXCEPT ![k].connections = c]
Adj(ns, k) == Range(ns[k].connections)
degree(ns, k) == Len(ns[k].connections)

(* ---------------- initialData ---------------- *)
newNodeRecord(id) ==
  [id |-> id, connections |-> <<>>, x |-> Null, y |-> Null, fx |-> Null, fy |-> Null]
initialData(ids) ==
  LET n == [k \in 1..5 |-> newNodeRecord(ids[k])]
  IN [k \in 1..5 |->
       [n[k] EXCEPT !.connections =
          CASE k = 1 -> <<ids[2], ids[5]>>
            [] k = 2 -> <<ids[1], ids[3]>>
            [] k = 3 -> <<ids[2], ids[4]>>
            [] k = 4 -> <<ids[3], ids[5]>>
            [] k = 5 -> <<ids[1], ids[4]>>]]

(* ---------------- getLinksFromNodes ---------------- *)
linksOfNode_noOrder(node) ==
  [k \in 1..Len(node.connections) |->
     [source |-> node.id, target |-> node.connections[k], value |-> 1]]
linksOfNode(node) ==
  LET out == SelectSeq(node.connections, LAMBDA targetId : node.id < targetId)
  IN [k \in 1..Len(out) |-> [source |-> node.id, target |-> out[k], value |-> 1]]
RECURSIVE linksUpTo(_, _)
linksUpTo(ns, k) ==
  IF k = 0 THEN <<>> ELSE linksUpTo(ns, k - 1) \o linksOfNode(ns[k])
getLinksFromNodes(ns) == linksUpTo(ns, Len(ns))

(* ---------------- toggleConnection (the state updater) ---------------- *)
\* variants of the updater used to test the properties below
toggleConnection_addOneWay(ns, source, target) ==
  LET s == find(ns, source)
      t == find(ns, target)
  IN IF s # 0 /\ t # 0
     THEN IF includes(ns[s].connections, target) \/ includes(ns[t].connections, source)
          THEN LET n1 == setConnections(ns, s, filterOut(ns[s].connections, target))
               IN setConnections(n1, t, filterOut(n1[t].connections, source))
          ELSE setConnections(ns, s, Append(ns[s].connections, target))
     ELSE ns
toggleConnection_removeOneWay(ns, source, target) ==
  LET s == find(ns, source)
      t == find(ns, target)
  IN IF s # 0 /\ t # 0
     THEN IF includes(ns[s].connections, target) \/ includes(ns[t].connections, source)
          THEN IF includes(ns[s].connections, target)
               THEN setConnections(ns, s, filterOut(ns[s].connections, target))
               ELSE ns
          ELSE LET n1 == setConnections(ns, s, Append(ns[s].connections, target))
               IN setConnections(n1, t, Append(n1[t].connections, source))
     ELSE ns
toggleConnection_selfTarget(ns, source, target) ==
  LET s == find(ns, source)
      t == find(ns, target)
  IN IF s # 0 /\ t # 0
     THEN IF includes(ns[s].connections, target) \/ includes(ns[t].connections, source)
          THEN LET n1 == setConnections(ns, s, filterOut(ns[s].connections, target))
               IN setConnections(n1, t, filterOut(n1[t].connections, source))
          ELSE LET n1 == setConnections(ns, s, Append(ns[s].connections, target))
               IN setConnections(n1, t, Append(n1[t].connections, target))
     ELSE ns
toggleConnection(ns, source, target) ==
  LET s == find(ns, source)
      t == find(ns, target)
  IN IF s # 0 /\ t # 0
     THEN IF includes(ns[s].connections, target) \/ includes(ns[t].connections, source)
          THEN LET n1 == IF includes(ns[s].connections, target)
                         THEN setConnections(ns, s, filterOut(ns[s].connections, target))
                         ELSE ns
                   n2 == IF includes(n1[t].connections, source)
                         THEN setConnections(n1, t, filterOut(n1[t].connections, source))
                         ELSE n1
               IN n2
          ELSE LET n1 == setConnections(ns, s, Append(ns[s].connections, target))
               IN setConnections(n1, t, Append(n1[t].connections, source))
     ELSE ns

(* ---------------- addNewNode (the state updater) ---------------- *)
addNewNode_fresh(ns, id) ==
  Append([k \in 1..Len(ns) |-> [ns[k] EXCEPT !.x = Null, !.y = Null]], newNodeRecord(id))
addNewNode(ns, id) == Append(ns, newNodeRecord(id))

(* ---------------- d3.forceSimulation(graphData.nodes) ---------------- *)
PhylloX == <<7, -9, 1, 11, -21, 20, -7, -13, 27>>
PhylloY == <<0, 8, -16, 15, -4, -13, 25, -24, 10>>
initializeNode(n, k) ==
  LET x1 == IF n.fx # Null THEN n.fx ELSE n.x
      y1 == IF n.fy # Null THEN n.fy ELSE n.y
  IN IF x1 = Null \/ y1 = Null
     THEN [n EXCEPT !.x = PhylloX[k], !.y = PhylloY[k]]
     ELSE [n EXCEPT !.x = x1, !.y = y1]
initializeNodes(ns) == [k \in 1..Len(ns) |-> initializeNode(ns[k], k)]
forceSimulation(ns) ==
  [alpha |-> AlphaOne, alphaTarget |-> 0, running |-> TRUE, n |-> Len(ns)]

(* ---------------- the effect on [graphData] ---------------- *)
\* clears the SVG, builds links, a new simulation and a new drag behaviour;
\* it returns no cleanup, so the simulations built before stay as they are
effectNodes(ns) == initializeNodes(ns)
effectSims(ss, ns) == Append(ss, forceSimulation(ns))

(* ---------------- one tick of one simulation ---------------- *)
\* the force pass is abstracted to its equilibrium under forceX/forceY/forceCenter:
\* a free node is moved to the centre the forces pull it to
force(x, centre) == centre
tickNode(n) ==
  [n EXCEPT !.x = IF n.fx = Null THEN force(n.x, width \div 2) ELSE n.fx,
            !.y = IF n.fy = Null THEN force(n.y, height \div 2) ELSE n.fy]
tickNodes(ns, sim) ==
  [k \in 1..Len(ns) |-> IF k <= sim.n THEN tickNode(ns[k]) ELSE ns[k]]
tickAlpha(sim) == sim.alpha + (((sim.alphaTarget - sim.alpha) * alphaDecay) \div AlphaOne)
\* step(): tick, then stop the timer once alpha < alphaMin
step(sim) ==
  LET a == tickAlpha(sim)
  IN [sim EXCEPT !.alpha = a, !.running = ~(a < alphaMin)]
RECURSIVE frameNodes(_, _, _)
frameNodes(ns, ss, k) ==
  IF k = 0 THEN ns
  ELSE LET before == frameNodes(ns, ss, k - 1)
       IN IF ss[k].running THEN tickNodes(before, ss[k]) ELSE before

(* ---------------- state ---------------- *)
Ev(kind, a, b, x, y) == [kind |-> kind, a |-> a, b |-> b, x |-> x, y |-> y]
Displayed == Len(sims)
active(s) == Cardinality({k \in 1..Len(nodes) : drags[k] = s})
Gestures == {k \in 1..Len(nodes) : drags[k] # 0}

\* the state after the first render and its effect, for given nanoid() results
Mounted(ids) ==
  /\ nodes = effectNodes(initialData(ids))
  /\ sims = effectSims(<<>>, initialData(ids))
  /\ drags = [k \in 1..MaxNodes |-> 0]
  /\ event = Ev("mount", 0, 0, 0, 0)
InitGraph == \E ids \in InitialIds : Mounted(ids)
Init == Mounted(<<1, 2, 3, 4, 5>>)

(* ---------------- handlers ---------------- *)
\* matrix cell onClick: rowNode.id !== colNode.id && toggleConnection(...);
\* a click on the diagonal updates no state, so nothing re-renders
CellClick_noGuard(rowId, colId) ==
  /\ LET ns == toggleConnection(nodes, rowId, colId)
     IN /\ nodes' = effectNodes(ns)
        /\ sims' = effectSims(sims, ns)
  /\ event' = Ev("toggle", rowId, colId, 0, 0)
  /\ UNCHANGED drags
CellClick(rowId, colId) ==
  /\ IF rowId # colId
     THEN LET ns == toggleConnection(nodes, rowId, colId)
          IN /\ nodes' = effectNodes(ns)
             /\ sims' = effectSims(sims, ns)
     ELSE UNCHANGED <<nodes, sims>>
  /\ event' = Ev("toggle", rowId, colId, 0, 0)
  /\ UNCHANGED drags

\* the Add Node button
AddNode(id) ==
  /\ Len(nodes) < MaxNodes
  /\ id \notin NodeIds(nodes)
  /\ Cardinality(Ids \ NodeIds(nodes)) > 1
  /\ LET ns == addNewNode(nodes, id)
     IN /\ nodes' = effectNodes(ns)
        /\ sims' = effectSims(sims, ns)
  /\ event' = Ev("add", id, 0, 0, 0)
  /\ UNCHANGED drags

\* the name input's onChange: node.name changes, graphData is a new object
Rename(k) ==
  /\ k \in 1..Len(nodes)
  /\ nodes' = effectNodes(nodes)
  /\ sims' = effectSims(sims, nodes)
  /\ event' = Ev("rename", k, 0, 0, 0)
  /\ UNCHANGED drags

\* dragstarted on the circle of node k (circles belong to the newest build)
dragstarted(k) ==
  /\ k \in 1..Len(nodes)
  /\ drags[k] = 0
  /\ Cardinality(Gestures) < MaxDrags
  /\ LET s == Displayed
     IN /\ sims' = IF active(s) = 0
                   THEN [sims EXCEPT ![s].alphaTarget = HotTarget, ![s].running = TRUE]
                   ELSE sims
        /\ drags' = [drags EXCEPT ![k] = s]
  /\ nodes' = [nodes EXCEPT ![k].fx = nodes[k].x, ![k].fy = nodes[k].y]
  /\ event' = Ev("dragstart", k, 0, 0, 0)

dragged(k, p) ==
  /\ k \in Gestures
  /\ nodes' = [nodes EXCEPT ![k].fx = p[1], ![k].fy = p[2]]
  /\ event' = Ev("drag", k, 0, p[1], p[2])
  /\ UNCHANGED <<sims, drags>>

dragended_keepTarget(k) ==
  /\ k \in Gestures
  /\ drags' = [drags EXCEPT ![k] = 0]
  /\ nodes' = [nodes EXCEPT ![k].fx = Null, ![k].fy = Null]
  /\ event' = Ev("dragend", k, 0, 0, 0)
  /\ UNCHANGED sims
dragended_whenLast(k) ==
  /\ k \in Gestures
  /\ LET s == drags[k]
     IN /\ sims' = IF active(s) - 1 = 0
                   THEN [sims EXCEPT ![s].alphaTarget = 0]
                   ELSE sims
        /\ nodes' = IF active(s) - 1 = 0
                    THEN [nodes EXCEPT ![k].fx = Null, ![k].fy = Null]
                    ELSE nodes
  /\ drags' = [drags EXCEPT ![k] = 0]
  /\ event' = Ev("dragend", k, 0, 0, 0)
dragended(k) ==
  /\ k \in Gestures
  /\ LET s == drags[k]
     IN sims' = IF active(s) - 1 = 0
                THEN [sims EXCEPT ![s].alphaTarget = 0]
                ELSE sims
  /\ drags' = [drags EXCEPT ![k] = 0]
  /\ nodes' = [nodes EXCEPT ![k].fx = Null, ![k].fy = Null]
  /\ event' = Ev("dragend", k, 0, 0, 0)

\* one animation frame: every running simulation's timer fires once
Frame ==
  /\ \E s \in 1..Len(sims) : sims[s].running
  /\ nodes' = frameNodes(nodes, sims, Len(sims))
  /\ sims' = [s \in 1..Len(sims) |-> IF sims[s].running THEN step(sims[s]) ELSE sims[s]]
  /\ event' = Ev("frame", 0, 0, 0, 0)
  /\ UNCHANGED drags

(* ---------------- specifications ---------------- *)
\* graph editing: every cell of the matrix, absent ids included
NextGraph ==
     /\ Len(sims) <= MaxEdits
     /\ \/ \E a \in Ids, b \in Ids : CellClick(a, b)
        \/ \E id \in Ids : AddNode(id)
        \/ \E k \in 1..Len(nodes) : Rename(k)
SpecGraph == InitGraph /\ [][NextGraph]_vars

\* interaction: edits on a few cells, drags and frames
SimCells == {<<1, 3>>}
\* the circles the pointer grabs: the first node and the newest one
DragNodes == {1, Len(nodes)}
Next ==
  \/ /\ Len(sims) < MaxSims
     /\ \/ \E c \in SimCells : CellClick(nodes[c[1]].id, nodes[c[2]].id)
        \/ AddNode(MaxNodes)
        \/ Rename(1)
  \/ \E k \in DragNodes : dragstarted(k)
  \/ \E k \in DragNodes, p \in DragPoints : dragged(k, p)
  \/ \E k \in DragNodes : dragended(k)
  \/ Frame
Spec == Init /\ [][Next]_vars

\* cooling: the animation frame keeps firing while a timer is active; the
\* user drags to one point and edits by renaming
LivePoints == {<<400, 300>>}
NextLive ==
  \/ Len(sims) < MaxSims /\ Rename(1)
  \/ \E k \in DragNodes : dragstarted(k)
  \/ \E k \in DragNodes, p \in LivePoints : dragged(k, p)
  \/ \E k \in DragNodes : dragended(k)
  \/ Frame
LiveSpec == Init /\ [][NextLive]_vars /\ WF_vars(Frame)

(* ---------------- properties ---------------- *)
AdjSets(ns) == [k \in 1..Len(ns) |-> Adj(ns, k)]
Connections(ns) == [k \in 1..Len(ns) |-> ns[k].connections]
RECURSIVE sumDegrees(_, _)
sumDegrees(ns, k) == IF k = 0 THEN 0 ELSE sumDegrees(ns, k - 1) + degree(ns, k)
Links == getLinksFromNodes(nodes)
Running == {s \in 1..Len(sims) : sims[s].running}
Idle(s) == ~sims[s].running /\ sims[s].alpha < alphaMin
\* the step is an edit of graphData: the effect has built a new simulation
Reseeded == Len(sims') = Len(sims) + 1
\* the step is dragended on node k
Released(k) == drags[k] # 0 /\ drags'[k] = 0

\* C1: adjacency is symmetric in every reachable graph: B is in A.connections
\* exactly when A is in B.connections.
C1_AdjacencySymmetric ==
  \A i \in 1..Len(nodes), j \in 1..Len(nodes) :
    includes(nodes[i].connections, nodes[j].id)
      <=> includes(nodes[j].connections, nodes[i].id)
\* an added node has been linked by a toggle
C1_Witness ==
  /\ event.kind = "toggle"
  /\ Len(nodes) = 6
  /\ degree(nodes, 6) = 1
  /\ degree(nodes, 1) = 3

\* C2: in every reachable graph, for existing ids a # b, two cell clicks (a, b)
\* in a row leave every node with the set of neighbours it had before.
C2_ToggleTwiceRestores ==
  \A a \in NodeIds(nodes), b \in NodeIds(nodes) :
    a # b =>
      LET once == effectNodes(toggleConnection(nodes, a, b))
          twice == effectNodes(toggleConnection(once, a, b))
      IN AdjSets(twice) = AdjSets(nodes)
\* two toggles of one edge happened: the neighbour sets are the initial ones
\* again, the order inside the arrays is not
C2_Witness ==
  /\ event.kind = "toggle"
  /\ Len(sims) = 3
  /\ Len(nodes) = 5
  /\ \A k \in 1..5 : Cardinality(Adj(nodes, k)) = 2 /\ degree(nodes, k) = 2
  /\ Links # <<>>
  /\ \E ids \in InitialIds :
       /\ AdjSets(nodes) = AdjSets(initialData(ids))
       /\ Connections(nodes) # Connections(initialData(ids))

\* C3: getLinksFromNodes returns (sum of degrees)/2 links, no two of them for
\* the same undirected pair, none from a node to itself; 5 for the initial cycle.
C3_LinksFromAdjacency ==
  /\ 2 * Len(Links) = sumDegrees(nodes, Len(nodes))
  /\ \A p \in 1..Len(Links), q \in 1..Len(Links) :
       p # q => {Links[p].source, Links[p].target} # {Links[q].source, Links[q].target}
  /\ \A p \in 1..Len(Links) : Links[p].source # Links[p].target
  /\ Len(sims) = 1 => Len(Links) = 5
\* a graph with an added node that has been linked: six links
C3_Witness ==
  /\ Len(nodes) = 6
  /\ Len(Links) = 6
  /\ degree(nodes, 6) = 1

\* C4: a cell click (a, b) on existing nodes a # b flips exactly the edge {a, b}:
\* absent before, both list each other after, both degrees and the link count
\* grow by one (chord A-C on the 5-cycle: degrees 3, 6 links); present before,
\* neither lists the other after; every other node keeps its connections.
C4_ToggleFlipsEdge ==
  [][(/\ event'.kind = "toggle"
      /\ event'.a # event'.b
      /\ event'.a \in NodeIds(nodes)
      /\ event'.b \in NodeIds(nodes))
     => LET a == event'.a
            b == event'.b
            i == find(nodes, a)
            j == find(nodes, b)
            wasLinked == b \in Adj(nodes, i) \/ a \in Adj(nodes, j)
        IN /\ ~wasLinked =>
                /\ b \in Adj(nodes', i) /\ a \in Adj(nodes', j)
                /\ degree(nodes', i) = degree(nodes, i) + 1
                /\ degree(nodes', j) = degree(nodes, j) + 1
                /\ Len(getLinksFromNodes(nodes')) = Len(Links) + 1
           /\ wasLinked => b \notin Adj(nodes', i) /\ a \notin Adj(nodes', j)
           /\ \A k \in 1..Len(nodes) :
                k \notin {i, j} => nodes'[k].connections = nodes[k].connections
           /\ (Len(sims) = 1 /\ i = 1 /\ j = 3) =>
                /\ degree(nodes', 1) = 3 /\ degree(nodes', 3) = 3
                /\ Len(getLinksFromNodes(nodes')) = 6]_vars
\* the chord A-C has just been added to the initial cycle
C4_Witness ==
  /\ event.kind = "toggle"
  /\ Len(sims) = 2
  /\ event.a = nodes[1].id /\ event.b = nodes[3].id
  /\ degree(nodes, 1) = 3 /\ degree(nodes, 3) = 3
  /\ Len(Links) = 6

\* C5: a cell click (a, b) with a = b, or with a or b not the id of a node,
\* leaves the connections of every node as they were.
C5_InvalidToggleNoOp ==
  [][(/\ event'.kind = "toggle"
      /\ \/ event'.a = event'.b
         \/ event'.a \notin NodeIds(nodes)
         \/ event'.b \notin NodeIds(nodes))
     => Connections(nodes') = Connections(nodes)]_vars
\* a diagonal click on an existing node after a node was added
C5_Witness ==
  /\ event.kind = "toggle"
  /\ event.a = event.b
  /\ event.a \in NodeIds(nodes)
  /\ Len(nodes) = 6

\* C6: at most one simulation is scheduled to tick: building a new simulation
\* stops the one built before.
C6_AtMostOneTicking == Cardinality(Running) <= 1

\* C7 as stated: re-seeding leaves the position of every node that existed
\* before the edit as it was.
C7_PositionsPreserved ==
  [][Reseeded =>
       \A k \in 1..Len(nodes) : nodes'[k].x = nodes[k].x /\ nodes'[k].y = nodes[k].y]_vars
\* C7 amended: re-seeding leaves the position of every node that existed and
\* is not pinned as it was, places a pinned node at its (fx, fy), and gives
\* only a newly added node a fresh initial position.
C7_PositionsPreservedUnlessPinned ==
  [][Reseeded =>
       /\ \A k \in 1..Len(nodes) :
            IF nodes[k].fx = Null
            THEN nodes'[k].x = nodes[k].x /\ nodes'[k].y = nodes[k].y
            ELSE nodes'[k].x = nodes[k].fx /\ nodes'[k].y = nodes[k].fy
       /\ \A k \in 1..Len(nodes') :
            k > Len(nodes) => nodes'[k].x = PhylloX[k] /\ nodes'[k].y = PhylloY[k]]_vars
\* a node was added after the forces had moved the others and while node 1
\* was pinned away from where it was
C7_Witness ==
  /\ event.kind = "add"
  /\ Len(nodes) = 6
  /\ nodes[2].x = width \div 2 /\ nodes[2].y = height \div 2
  /\ nodes[1].fx = 120 /\ nodes[1].x = 120
  /\ nodes[6].x = PhylloX[6]

\* C8: while a drag is in progress the simulation behind the displayed nodes
\* is running with alphaTarget raised.
C8_HotWhileDragging ==
  Gestures # {} =>
    /\ sims[Displayed].running
    /\ sims[Displayed].alphaTarget = HotTarget

\* C9 as stated: after every dragended the simulation's alphaTarget is 0.
C9_TargetZeroAfterEveryDragEnd ==
  [][\A k \in 1..Len(nodes) : Released(k) => sims'[drags[k]].alphaTarget = 0]_vars
\* C9 amended: a dragended that leaves no other drag active on its simulation
\* sets that simulation's alphaTarget to 0, one that leaves another drag
\* active keeps it raised; and when no drag is active, every simulation
\* eventually is idle unless a further drag or edit occurs.
C9_CoolsAfterLastDragEnd ==
  /\ [][\A k \in 1..Len(nodes) :
          Released(k) =>
            IF active(drags[k]) = 1
            THEN sims'[drags[k]].alphaTarget = 0
            ELSE sims'[drags[k]].alphaTarget = HotTarget]_vars
  /\ (Gestures = {} /\ event.kind \in {"dragend", "frame"})
       ~> ((\A s \in 1..Len(sims) : Idle(s)) \/ event.kind \notin {"dragend", "frame"})
\* the last drag has just ended on a simulation that is still hot
C9_Witness ==
  /\ event.kind = "dragend"
  /\ Gestures = {}
  /\ \E s \in 1..Len(sims) :
       sims[s].alphaTarget = 0 /\ sims[s].running /\ sims[s].alpha >= HotTarget - 1

====
